---- MODULE Spec2Model ----
(***************************************************************************)
(* Storage layer of sqlite-rust: Page (src/src/page.rs), Table and the Row *)
(* codec (src/src/table.rs).                                               *)
(*                                                                         *)
(* Byte strings are sequences of 0..255.  Option<T> is a sequence of       *)
(* length at most one: << >> is None and <<v>> is Some(v).                 *)
(* usize is 64 bits wide.  A usize value is held as its residue modulo     *)
(* 2^64 in the range (-2^63, 2^63): a negative number -k stands for the    *)
(* unsigned value 2^64 - k that wrapping arithmetic produces.              *)
(***************************************************************************)
EXTENDS Integers, Sequences, FiniteSets, TLC

VARIABLES table, overflow_checks, fatal, op, ret, pushed,
          page, page_op, page_ret, page_fatal,
          crow, cbytes, cser, cm, cdes

vars == <<table, overflow_checks, fatal, op, ret, pushed,
          page, page_op, page_ret, page_fatal,
          crow, cbytes, cser, cm, cdes>>
tvars == <<table, fatal, op, ret, pushed>>
pvars == <<page, page_op, page_ret, page_fatal>>
cvars == <<crow, cbytes, cser, cm, cdes>>

(***************************************************************************)
(* Bounds                                                                  *)
(***************************************************************************)
\* largest max_string_len handed to the codec and to Table::get
MaxStrLen == 2
\* longest short text field of a Row
MaxFieldLen == 2
\* rows pushed into one table
MaxRows == 3
\* largest stand-alone Page
MaxPageLen == 4
\* longest slice written to a stand-alone Page
MaxSrcLen == 2

\* mem::size_of::<usize>() on a 64-bit target
UsizeBytes == 8

None == << >>
Some(v) == <<v>>

Zeros(n) == [i \in 1..n |-> 0]

(***************************************************************************)
(* str::from_utf8: well-formed UTF-8 (Unicode table 3-7).                  *)
(***************************************************************************)
IsCont(b) == b >= 128 /\ b <= 191

RECURSIVE from_utf8_ok(_)
from_utf8_ok(s) ==
    IF s = << >> THEN TRUE
    ELSE LET b == s[1]
             n == Len(s)
         IN IF b < 128 THEN from_utf8_ok(Tail(s))
            ELSE IF b >= 194 /\ b <= 223
                 THEN n >= 2 /\ IsCont(s[2]) /\ from_utf8_ok(SubSeq(s, 3, n))
            ELSE IF b >= 224 /\ b <= 239
                 THEN /\ n >= 3
                      /\ IsCont(s[2])
                      /\ (b = 224 => s[2] >= 160)
                      /\ (b = 237 => s[2] <= 159)
                      /\ IsCont(s[3])
                      /\ from_utf8_ok(SubSeq(s, 4, n))
            ELSE IF b >= 240 /\ b <= 244
                 THEN /\ n >= 4
                      /\ IsCont(s[2])
                      /\ (b = 240 => s[2] >= 144)
                      /\ (b = 244 => s[2] <= 143)
                      /\ IsCont(s[3])
                      /\ IsCont(s[4])
                      /\ from_utf8_ok(SubSeq(s, 5, n))
            ELSE FALSE

(***************************************************************************)
(* Row codec                                                               *)
(***************************************************************************)
\* usize::to_le_bytes, least significant byte first
RECURSIVE LeBytes(_, _)
LeBytes(n, k) ==
    IF k = 0 THEN << >> ELSE <<n % 256>> \o LeBytes(n \div 256, k - 1)

to_le_bytes(n) == LeBytes(n, UsizeBytes)

\* usize::from_le_bytes
RECURSIVE from_le_bytes(_)
from_le_bytes(s) ==
    IF s = << >> THEN 0 ELSE s[1] + 256 * from_le_bytes(Tail(s))

\* buffer[start..start + src.len()].copy_from_slice(src), start 0-based
SliceCopy(buf, start, src) ==
    [i \in 1..Len(buf) |->
        IF i > start /\ i <= start + Len(src) THEN src[i - start] ELSE buf[i]]

Ok(v) == [ok |-> TRUE, err |-> "", val |-> v]
Err(e) == [ok |-> FALSE, err |-> e, val |-> << >>]

\* Row::serialise.  The three slice copies run under catch_unwind; a slice
\* whose end lies past buffer_len panics and becomes StringWriteError.
serialise(row) ==
    IF row.id = None THEN Err("NoContents")
    ELSE LET m == row.max_string_len
             buffer_len == m * 2 + UsizeBytes
             buffer == Zeros(buffer_len)
             ulen == Len(row.username)
             elen == Len(row.email)
         IN IF ulen > buffer_len THEN Err("StringWriteError")
            ELSE IF m + elen > buffer_len THEN Err("StringWriteError")
            ELSE LET b1 == SliceCopy(buffer, 0, row.username)
                     b2 == SliceCopy(b1, m, row.email)
                     b3 == SliceCopy(b2, m * 2, to_le_bytes(row.id[1]))
                 IN Ok(b3)

\* x.into_iter().find(..) with the closure's counter: counter grows by one
\* for each element examined; the result is the counter when a zero byte
\* was found, None when the iterator ran out
RECURSIVE ScanZero(_, _)
ScanZero(x, counter) ==
    IF x = << >> THEN None
    ELSE IF x[1] = 0 THEN Some(counter + 1)
    ELSE ScanZero(Tail(x), counter + 1)

\* find_first_zero without its `counter -= 1`
find_first_zero_no_decrement(x) ==
    LET found == ScanZero(x, 0)
    IN IF found = None THEN None ELSE Some(found[1])

\* find_first_zero
find_first_zero(x) ==
    LET found == ScanZero(x, 0)
    IN IF found = None THEN None ELSE Some(found[1] - 1)

\* extract_string, the helper nested in Row::deserialise
extract_string(buffer) ==
    LET z == find_first_zero(buffer)
    IN IF z = None THEN Err("StringReadError")
       ELSE LET bytes == SubSeq(buffer, 1, z[1])
            IN IF from_utf8_ok(bytes) THEN Ok(bytes) ELSE Err("StringReadError")

\* Row::deserialise past its length test: the two text fields, then the id
deserialise_fields(serial, max_string_len) ==
    LET username == extract_string(SubSeq(serial, 1, max_string_len))
    IN IF ~username.ok THEN Err(username.err)
       ELSE LET email == extract_string(
                           SubSeq(serial, max_string_len + 1, max_string_len * 2))
            IN IF ~email.ok THEN Err(email.err)
               ELSE Ok([id |-> Some(from_le_bytes(
                                   SubSeq(serial, max_string_len * 2 + 1, Len(serial)))),
                        username |-> username.val,
                        email |-> email.val,
                        max_string_len |-> max_string_len])

\* Row::deserialise rejecting only buffers that are too short
deserialise_len_lt(serial, max_string_len) ==
    IF Len(serial) < max_string_len * 2 + UsizeBytes
    THEN Err("BufferLenError")
    ELSE deserialise_fields(serial, max_string_len)

\* Row::deserialise
deserialise(serial, max_string_len) ==
    IF Len(serial) # max_string_len * 2 + UsizeBytes
    THEN Err("BufferLenError")
    ELSE deserialise_fields(serial, max_string_len)

(***************************************************************************)
(* Page                                                                    *)
(***************************************************************************)
\* unsigned a > b for a usize a held as a residue and 0 <= b < 2^63
UsizeGt(a, b) == a < 0 \/ a > b

\* Page::alloc_zeroed for size > 0: a zero-filled buffer of size bytes
alloc_zeroed(size) == Zeros(size)

\* Page::size
size(pg) == Len(pg)

\* Page::copy_from_slice.  The destination of ptr::copy_nonoverlapping is
\* self.buffer, the start of the page: loc is used by the bounds test only.
\* src.len() + loc overflows when loc is a wrapped value -k with
\* k <= src.len(); overflow checks turn that into a panic.
copy_from_slice(pg, loc, src, checks) ==
    LET overflows == loc < 0 /\ Len(src) + loc >= 0
        sum == Len(src) + loc
    IN IF overflows /\ checks
       THEN [fatal |-> "attempt to add with overflow", page |-> pg]
       ELSE IF UsizeGt(sum, size(pg))
       THEN [fatal |-> "source slice is too large", page |-> pg]
       ELSE [fatal |-> "none", page |-> SliceCopy(pg, 0, src)]

\* Page::read_from_index
read_from_index(pg, loc, count) ==
    IF count = 0 THEN None
    ELSE IF loc + count > size(pg) THEN None
    ELSE Some(SubSeq(pg, loc + 1, loc + count))

(***************************************************************************)
(* Table                                                                   *)
(***************************************************************************)
\* Table::build for page_size > 0
build(page_size) ==
    [buffer |-> << >>, page_size |-> page_size, num_rows |-> 0,
     row_size |-> None, max_string_len |-> None]

\* Table::len
len(t) == t.num_rows

Outcome(t, f) == [table |-> t, fatal |-> f]

\* Table::push past its match on row_size: t1 is the table with row_size
\* bound.  Page choice, allocation, write and the row count.
push_store(t1, contents, checks) ==
    LET row_num == t1.num_rows + 1
        row_size == t1.row_size[1]
    IN IF row_size = 0 THEN Outcome(t1, "attempt to divide by zero")
       ELSE
       LET rows_per_page == t1.page_size \div row_size
           page_num == row_num \div rows_per_page
           t2 == IF page_num >= Len(t1.buffer)
                 THEN [t1 EXCEPT !.buffer = Append(@, alloc_zeroed(t1.page_size))]
                 ELSE t1
       IN IF page_num >= Len(t2.buffer)
          THEN Outcome(t2, "called Option::unwrap() on a None value")
          ELSE
          LET diff == t1.num_rows - rows_per_page * page_num
          IN IF diff < 0 /\ checks
             THEN Outcome(t2, "attempt to subtract with overflow")
             ELSE
             LET write_point == diff * row_size
                 w == copy_from_slice(t2.buffer[page_num + 1], write_point,
                                      contents, checks)
             IN IF w.fatal # "none" THEN Outcome(t2, w.fatal)
                ELSE Outcome([t2 EXCEPT !.buffer[page_num + 1] = w.page,
                                        !.num_rows = row_num], "none")

\* Table::push that rebinds row_size to every accepted length instead of
\* rejecting a length that differs from the bound one
push_rebinding(t, contents, checks) ==
    IF Len(contents) > t.page_size
    THEN Outcome(t, "row size greater than page size")
    ELSE push_store([t EXCEPT !.row_size = Some(Len(contents))], contents, checks)

\* Table::push.  The result is the table as the call leaves it and the
\* panic that ended it, "none" when it returned.
push(t, contents, checks) ==
    IF t.row_size # None /\ Len(contents) # t.row_size[1]
    THEN Outcome(t, "input size does not match table row size")
    ELSE IF t.row_size = None /\ Len(contents) > t.page_size
    THEN Outcome(t, "row size greater than page size")
    ELSE IF t.row_size = None
    THEN push_store([t EXCEPT !.row_size = Some(Len(contents))], contents, checks)
    ELSE push_store(t, contents, checks)

GetOutcome(r, f) == [ret |-> r, fatal |-> f]

\* Table::get past its bounds test: locate, read and decode the row
get_row(t, row_id, max_string_len) ==
    IF t.row_size = None THEN GetOutcome(None, "none")
    ELSE IF t.row_size[1] = 0 THEN GetOutcome(None, "attempt to divide by zero")
    ELSE
    LET row_size == t.row_size[1]
        rows_per_page == t.page_size \div row_size
        page_num == row_id \div rows_per_page
        read_point == (row_id - rows_per_page * page_num) * row_size
    IN IF page_num >= Len(t.buffer)
       THEN GetOutcome(None, "called Option::unwrap() on a None value")
       ELSE
       LET row_buffer == read_from_index(t.buffer[page_num + 1], read_point, row_size)
       IN IF row_buffer = None THEN GetOutcome(None, "none")
          ELSE LET d == deserialise(row_buffer[1], max_string_len)
               IN GetOutcome(IF d.ok THEN Some(d.val) ELSE None, "none")

\* Table::get with the bounds test off by one
get_off_by_one(t, row_id, max_string_len) ==
    IF row_id > t.num_rows THEN GetOutcome(None, "none")
    ELSE get_row(t, row_id, max_string_len)

\* Table::get
get(t, row_id, max_string_len) ==
    IF row_id >= t.num_rows THEN GetOutcome(None, "none")
    ELSE get_row(t, row_id, max_string_len)

(***************************************************************************)
(* Inputs                                                                  *)
(***************************************************************************)
\* page sizes handed to Table::build
PageSizes == {8, 12, 24, 36}
\* ids, usernames and emails of the rows inserted into a table; a username
\* may be as long as max_string_len, as prepare_statement does not check it
TableIds == {1, 258}
TableNames == {<< >>, <<97>>}
TableEmails == {<< >>}
TableRows ==
    { [id |-> Some(i), username |-> u, email |-> e, max_string_len |-> m] :
        i \in TableIds, u \in TableNames, e \in TableEmails, m \in 1..MaxStrLen }
\* lengths of pushed byte strings that are no row: empty, short, and longer
\* than every page
RawLens == {0, 5, 40}
PushInputs ==
    { serialise(r).val : r \in { x \in TableRows : serialise(x).ok } }
    \cup { Zeros(n) : n \in RawLens }

NoOp ==
    [kind |-> "none", contents |-> << >>, row_id |-> 0, max_string_len |-> 0,
     before |-> build(1)]

(***************************************************************************)
(* Table: the operations of one table, as execute_statement drives them.   *)
(* A panic ends the process: no operation follows it.                      *)
(***************************************************************************)
IdlePage ==
    /\ page = << >>
    /\ page_op = << >>
    /\ page_ret = None
    /\ page_fatal = "none"

IdleCodec ==
    /\ crow = None
    /\ cbytes = None
    /\ cser = None
    /\ cm = None
    /\ cdes = None

IdleTable ==
    /\ table = build(1)
    /\ fatal = "none"
    /\ op = NoOp
    /\ ret = None
    /\ pushed = << >>

\* overflow_checks is the build profile: TRUE for a debug build, where usize
\* overflow panics, FALSE for a release build, where it wraps
Init ==
    /\ \E page_size \in PageSizes : table = build(page_size)
    /\ overflow_checks \in BOOLEAN
    /\ fatal = "none"
    /\ op = NoOp
    /\ ret = None
    /\ pushed = << >>
    /\ IdlePage
    /\ IdleCodec

Push ==
    /\ fatal = "none"
    /\ len(table) < MaxRows
    /\ \E contents \in PushInputs :
         LET o == push(table, contents, overflow_checks)
         IN /\ table' = o.table
            /\ fatal' = o.fatal
            /\ op' = [kind |-> "push", contents |-> contents, row_id |-> 0,
                      max_string_len |-> 0, before |-> table]
            /\ pushed' = IF o.fatal = "none" THEN Append(pushed, contents) ELSE pushed
    /\ ret' = None
    /\ UNCHANGED <<overflow_checks, pvars, cvars>>

Get ==
    /\ fatal = "none"
    /\ \E row_id \in 0..(MaxRows + 1), max_string_len \in 0..MaxStrLen :
         LET o == get(table, row_id, max_string_len)
         IN /\ ret' = o.ret
            /\ fatal' = o.fatal
            /\ op' = [kind |-> "get", contents |-> << >>, row_id |-> row_id,
                      max_string_len |-> max_string_len, before |-> table]
    /\ UNCHANGED <<table, overflow_checks, pushed, pvars, cvars>>

Next == Push \/ Get

Spec == Init /\ [][Next]_vars

(***************************************************************************)
(* Page on its own: one page, written and read at chosen offsets.          *)
(***************************************************************************)
PageBytes == {1, 2}
SrcInputs == UNION { [1..n -> PageBytes] : n \in 0..MaxSrcLen }

NoPageOp ==
    [kind |-> "none", loc |-> 0, src |-> << >>, count |-> 0, after |-> None]

InitPage ==
    /\ \E n \in 1..MaxPageLen : page = alloc_zeroed(n)
    /\ page_op = NoPageOp
    /\ page_ret = None
    /\ page_fatal = "none"
    /\ overflow_checks \in BOOLEAN
    /\ IdleTable
    /\ IdleCodec

\* page.copy_from_slice(loc, src)
PageWrite ==
    /\ page_fatal = "none"
    /\ \E loc \in 0..MaxPageLen, src \in SrcInputs :
         LET w == copy_from_slice(page, loc, src, overflow_checks)
         IN /\ page' = w.page
            /\ page_fatal' = w.fatal
            /\ page_op' = [kind |-> "write", loc |-> loc, src |-> src,
                           count |-> 0, after |-> None]
    /\ page_ret' = None
    /\ UNCHANGED <<overflow_checks, tvars, cvars>>

\* page.read_from_index(loc, count); `after` is the write that came just
\* before this read, if the previous operation was a write
PageRead ==
    /\ page_fatal = "none"
    /\ \E loc \in 0..MaxPageLen, count \in 0..MaxPageLen :
         /\ page_ret' = read_from_index(page, loc, count)
         /\ page_op' = [kind |-> "read", loc |-> loc, src |-> << >>,
                        count |-> count,
                        after |-> IF page_op.kind = "write"
                                  THEN Some([loc |-> page_op.loc, src |-> page_op.src])
                                  ELSE None]
    /\ UNCHANGED <<page, page_fatal, overflow_checks, tvars, cvars>>

NextPage == PageWrite \/ PageRead

SpecPage == InitPage /\ [][NextPage]_vars

(***************************************************************************)
(* Codec on its own: a Row is serialised and the bytes decoded, or a raw   *)
(* buffer is decoded.                                                      *)
(***************************************************************************)
Alphabet == {0, 97, 195, 169}
Rep(b, n) == [i \in 1..n |-> b]
\* fields longer than the whole buffer of some max_string_len
LongStrings == { Rep(97, UsizeBytes + 1), Rep(97, UsizeBytes + 2 * MaxStrLen + 1) }
\* a Rust String holds valid UTF-8 and may hold a zero byte
Strings ==
    { s \in UNION { [1..n -> Alphabet] : n \in 0..MaxFieldLen } : from_utf8_ok(s) }
    \cup LongStrings
CodecIds == {None, Some(0), Some(258)}
CodecRows ==
    { [id |-> i, username |-> u, email |-> e, max_string_len |-> m] :
        i \in CodecIds, u \in Strings, e \in Strings, m \in 0..MaxStrLen }
\* buffers of a row's width with any text bytes, and one of no row's width
RawBuffers ==
    UNION { { t \o to_le_bytes(i) : t \in [1..(2 * m) -> Alphabet], i \in {0, 258} } :
            m \in 0..MaxStrLen }
    \cup { Zeros(UsizeBytes + 1) }

InitCodec ==
    /\ \/ \E r \in CodecRows : crow = Some(r) /\ cbytes = None
       \/ \E b \in RawBuffers : crow = None /\ cbytes = Some(b)
    /\ cser = None
    /\ cm = None
    /\ cdes = None
    /\ overflow_checks = FALSE
    /\ IdleTable
    /\ IdlePage

\* row.serialise()
CodecSerialise ==
    /\ crow # None
    /\ cser = None
    /\ LET r == serialise(crow[1])
       IN /\ cser' = Some(r)
          /\ cbytes' = IF r.ok THEN Some(r.val) ELSE None
    /\ UNCHANGED <<crow, cm, cdes, overflow_checks, tvars, pvars>>

\* Row::deserialise(bytes, max_string_len)
CodecDeserialise ==
    /\ cbytes # None
    /\ \E max_string_len \in 0..MaxStrLen :
         /\ cm' = Some(max_string_len)
         /\ cdes' = Some(deserialise(cbytes[1], max_string_len))
    /\ UNCHANGED <<crow, cbytes, cser, overflow_checks, tvars, pvars>>

NextCodec == CodecSerialise \/ CodecDeserialise

SpecCodec == InitCodec /\ [][NextCodec]_vars

(***************************************************************************)
(* Claims                                                                  *)
(***************************************************************************)
HasZero(s) == \E i \in 1..Len(s) : s[i] = 0

ZeroFree(s) == ~HasZero(s)

\* the bytes of s that precede its first zero byte (s holds one)
BeforeFirstZero(s) ==
    SubSeq(s, 1, CHOOSE k \in 0..(Len(s) - 1) :
                     s[k + 1] = 0 /\ \A j \in 1..k : s[j] # 0)

\* the row the table's addressing formula places row index r at
RowAt(t, r) ==
    LET row_size == t.row_size[1]
        rows_per_page == t.page_size \div row_size
        page_index == r \div rows_per_page
        offset == (r % rows_per_page) * row_size
    IN IF page_index < Len(t.buffer)
       THEN Some(SubSeq(t.buffer[page_index + 1], offset + 1, offset + row_size))
       ELSE None

\* C1: after pushing the serialisations of rows built with one
\* max_string_len, get(i, max_string_len) returns a row with the id,
\* username and email of the i-th pushed row, for every pushed i.
C1_TableRoundTrip ==
    (op.kind = "get" /\ op.row_id < Len(pushed)) =>
        \A r \in TableRows :
            (/\ r.max_string_len = op.max_string_len
             /\ r.id # None
             /\ Len(r.username) < r.max_string_len
             /\ Len(r.email) < r.max_string_len
             /\ ZeroFree(r.username)
             /\ ZeroFree(r.email)
             /\ serialise(r).ok
             /\ serialise(r).val = pushed[op.row_id + 1])
            => /\ fatal = "none"
               /\ ret # None
               /\ ret[1].id = r.id
               /\ ret[1].username = r.username
               /\ ret[1].email = r.email

\* C2: a Row with id set and zero-free username and email, each shorter
\* than max_string_len, survives serialise followed by deserialise with the
\* same max_string_len: the decode succeeds with the same id, username and
\* email.
C2_CodecRoundTrip ==
    (/\ crow # None
     /\ cser # None
     /\ cdes # None
     /\ crow[1].id # None
     /\ Len(crow[1].username) < crow[1].max_string_len
     /\ Len(crow[1].email) < crow[1].max_string_len
     /\ ZeroFree(crow[1].username)
     /\ ZeroFree(crow[1].email)
     /\ cm = Some(crow[1].max_string_len))
    => /\ cser[1].ok
       /\ cbytes = Some(cser[1].val)
       /\ cdes[1].ok
       /\ cdes[1].val.id = crow[1].id
       /\ cdes[1].val.username = crow[1].username
       /\ cdes[1].val.email = crow[1].email

C2_Witness ==
    /\ crow # None
    /\ cdes # None
    /\ crow[1].id = Some(258)
    /\ Len(crow[1].username) > 0
    /\ Len(crow[1].email) > 0
    /\ Len(crow[1].username) < crow[1].max_string_len
    /\ Len(crow[1].email) < crow[1].max_string_len
    /\ ZeroFree(crow[1].username)
    /\ ZeroFree(crow[1].email)
    /\ cm = Some(crow[1].max_string_len)
    /\ cdes[1].ok
    /\ cdes[1].val.username = crow[1].username

\* C3: the push that stores row index r (len() before the push) leaves its
\* bytes at page r / rows_per_page, offset (r mod rows_per_page) * row_size,
\* and get(r) decodes the bytes at that same place.
C3_Addressing ==
    /\ (op.kind = "push" /\ fatal = "none")
         => RowAt(table, len(op.before)) = Some(op.contents)
    /\ (op.kind = "get" /\ fatal = "none" /\ op.row_id < len(table))
         => /\ RowAt(table, op.row_id) # None
            /\ LET d == deserialise(RowAt(table, op.row_id)[1], op.max_string_len)
               IN ret = IF d.ok THEN Some(d.val) ELSE None

\* C4: on a page of size s, copy_from_slice(o, b) with b non-empty and
\* o + len(b) <= s, followed by read_from_index(o, len(b)), returns b.
C4_PageWriteRead ==
    (/\ page_op.kind = "read"
     /\ page_op.after # None
     /\ Len(page_op.after[1].src) > 0
     /\ page_op.after[1].loc + Len(page_op.after[1].src) <= size(page)
     /\ page_op.loc = page_op.after[1].loc
     /\ page_op.count = Len(page_op.after[1].src))
    => page_ret = Some(page_op.after[1].src)

\* C5: in every table state, get(row_index, m) with row_index >= len()
\* returns None and does not panic.
C5_GetPastEnd ==
    (op.kind = "get" /\ op.row_id >= len(op.before))
    => (ret = None /\ fatal = "none" /\ table = op.before)

C5_Witness ==
    /\ op.kind = "get"
    /\ table.row_size # None
    /\ len(table) > 0
    /\ op.row_id = len(table)
    /\ op.max_string_len * 2 + UsizeBytes = table.row_size[1]
    /\ ret = None

\* C6: row_size starts unset; the first push (of a length the page can
\* hold) binds it to the length of the pushed bytes; once bound it never
\* changes; a later push of another length panics with the row-size
\* mismatch and stores nothing.
C6_RowSizeBinding ==
    /\ table.row_size = None
    /\ [][/\ (table.row_size # None => table'.row_size = table.row_size)
          /\ (op'.kind = "push" /\ op'.before = table)
               => /\ (table.row_size = None /\ Len(op'.contents) <= table.page_size)
                       => table'.row_size = Some(Len(op'.contents))
                  /\ (table.row_size # None /\ Len(op'.contents) # table.row_size[1])
                       => /\ fatal' = "input size does not match table row size"
                          /\ table' = table
                          /\ pushed' = pushed]_vars

C6_Witness ==
    /\ op.kind = "push"
    /\ op.before.row_size # None
    /\ len(op.before) > 0
    /\ Len(op.contents) # op.before.row_size[1]
    /\ Len(op.contents) > 0
    /\ Len(op.contents) <= table.page_size
    /\ fatal = "input size does not match table row size"
    /\ table.row_size = op.before.row_size
    /\ len(table) = len(op.before)

\* C7: serialise of a Row with id set whose username or email is longer
\* than max_string_len returns no buffer: it fails with StringWriteError.
C7_OversizedNeverSerialised ==
    (/\ crow # None
     /\ cser # None
     /\ crow[1].id # None
     /\ \/ Len(crow[1].username) > crow[1].max_string_len
        \/ Len(crow[1].email) > crow[1].max_string_len)
    => (~cser[1].ok /\ cser[1].err = "StringWriteError")

\* C8: a push of L bytes, 0 < L <= page_size, that matches the bound row
\* size (or is the first push) never panics and grows len() by exactly one,
\* so len() counts the pushes made.
C8_ValidPushSucceeds ==
    /\ (/\ op.kind = "push"
        /\ Len(op.contents) > 0
        /\ Len(op.contents) <= table.page_size
        /\ op.before.row_size \in {None, Some(Len(op.contents))})
       => (fatal = "none" /\ len(table) = len(op.before) + 1)
    /\ len(table) = Len(pushed)

\* C9: deserialise(bytes, m) returns BufferLenError exactly when
\* len(bytes) # 2m + 8; otherwise StringReadError when the username slice
\* or the email slice holds no zero byte (so the serialisation of a row
\* with a zero-free field of exactly m bytes is not decoded); otherwise,
\* for valid text, a Row whose username and email are the bytes before the
\* first zero byte of each slice and whose id is the little-endian value of
\* the last 8 bytes.
C9_DeserialiseOutcomes ==
    cdes # None =>
        LET b == cbytes[1]
            m == cm[1]
            d == cdes[1]
            len_ok == Len(b) = 2 * m + UsizeBytes
            us == SubSeq(b, 1, m)
            es == SubSeq(b, m + 1, 2 * m)
        IN /\ (d.err = "BufferLenError") <=> ~len_ok
           /\ (len_ok /\ (ZeroFree(us) \/ ZeroFree(es)))
                => (~d.ok /\ d.err = "StringReadError")
           /\ (/\ len_ok
               /\ HasZero(us)
               /\ HasZero(es)
               /\ from_utf8_ok(BeforeFirstZero(us))
               /\ from_utf8_ok(BeforeFirstZero(es)))
                => /\ d.ok
                   /\ d.val.username = BeforeFirstZero(us)
                   /\ d.val.email = BeforeFirstZero(es)
                   /\ d.val.id # None
                   /\ to_le_bytes(d.val.id[1]) = SubSeq(b, 2 * m + 1, 2 * m + UsizeBytes)
           /\ (/\ crow # None
               /\ cser # None
               /\ m = crow[1].max_string_len
               /\ \/ Len(crow[1].username) = m /\ ZeroFree(crow[1].username)
                  \/ Len(crow[1].email) = m /\ ZeroFree(crow[1].email))
                => (~d.ok /\ d.err = "StringReadError")

C9_Witness ==
    /\ crow # None
    /\ cser # None
    /\ cdes # None
    /\ cser[1].ok
    /\ cm = Some(crow[1].max_string_len)
    /\ crow[1].max_string_len > 0
    /\ Len(crow[1].username) = crow[1].max_string_len
    /\ ZeroFree(crow[1].username)
    /\ Len(crow[1].email) < crow[1].max_string_len
    /\ cdes[1].err = "StringReadError"

\* C10: whenever row_size is bound, 1 <= row_size <= page_size, so that
\* neither push nor get divides by zero; a first push of more than
\* page_size bytes, or of no bytes, is rejected and leaves row_size
\* unbound and len() = 0.
C10_RowSizeUsable ==
    /\ table.row_size # None
         => (1 <= table.row_size[1] /\ table.row_size[1] <= table.page_size)
    /\ fatal # "attempt to divide by zero"
    /\ (/\ op.kind = "push"
        /\ op.before.row_size = None
        /\ (Len(op.contents) > table.page_size \/ Len(op.contents) = 0))
       => (fatal # "none" /\ table.row_size = None /\ len(table) = 0)

====
